---- MODULE Spec2Model ----
(***************************************************************************)
(* Finance/Black-Scholes.ipynb as a state machine.                         *)
(*                                                                         *)
(* The state is the Jupyter kernel: its global namespace, its standard     *)
(* output, the outcome of the latest run of every code cell, and every     *)
(* thread's stack of frames.  Cells and function bodies are statement      *)
(* lists; a thread runs the statement at the pc of its top frame           *)
(* (ExecStmt), with Python's scoping (IsLocalName, Load, Store), calls     *)
(* (a frame is pushed), returns (it is popped) and exceptions (the stack   *)
(* unwinds: the notebook has no try).  Numbers are symbolic terms: np.log, *)
(* np.sqrt, np.exp and norm.cdf are uninterpreted, so a price is the term  *)
(* the code builds.  Only what Python raises is decided: int / int raises  *)
(* ZeroDivisionError on a zero divisor, the numpy routines return nan or   *)
(* inf with a warning and never raise.                                     *)
(***************************************************************************)
EXTENDS Integers, Sequences, FiniteSets, TLC

VARIABLES
    cell,     \* index of the next code cell of the top-to-bottom run
    globals,  \* the kernel's global namespace: name -> value
    stdout,   \* what print has written
    outs,     \* code cell -> outcome of its latest run
    frames,   \* thread -> its stack of frames and the outcome of its call
    last      \* an earlier completed call, remembered by the caller

vars == <<cell, globals, stdout, outs, frames, last>>

-----------------------------------------------------------------------------
(* Values.  Every value is a tuple headed by a tag.                        *)

Tag(v) == v[1]

Unbound == <<"unbound">>
None == <<"none">>
Num(p, q) == <<"num", p, q>>
Str(s) == <<"str", s>>
Module(n) == <<"module", n>>
Function(id) == <<"function", id>>
List(xs) == <<"list", xs>>

\* The terms numpy and scipy build (uninterpreted).
Add(a, b) == <<"add", a, b>>
Sub(a, b) == <<"sub", a, b>>
Mul(a, b) == <<"mul", a, b>>
Div(a, b) == <<"div", a, b>>
Neg(a) == <<"neg", a>>
Square(a) == <<"pow", a, Num(2, 1)>>
Log(a) == <<"log", a>>
Sqrt(a) == <<"sqrt", a>>
Exp(a) == <<"exp", a>>
Cdf(a) == <<"cdf", a>>

\* Outcomes of an evaluation, and the control outcomes of a statement.
Ok(v) == <<"ok", v>>
Raise(kind, what) == <<"raise", kind, what>>
Return(v) == <<"return", v>>
Continue == <<"next">>
Stay == <<"stay">>
PushCall(fn, args) == <<"call", fn, args>>

\* A Python int or float that is zero (np.float64 zeros are not: dividing
\* by one warns and gives inf or nan).
IsZero(v) == Tag(v) = "num" /\ v[2] = 0

Names ==
    {"np", "plt", "norm", "black_scholes",
     "S", "K", "T", "r", "sigma", "option_type",
     "d1", "d2", "price", "call_price", "put_price",
     "sigmas", "prices", "times", "call_prices", "put_prices"}

Params == <<"S", "K", "T", "r", "sigma", "option_type">>

NumPoints == 100
NumCells == 5

-----------------------------------------------------------------------------
(* The notebook's code, statement by statement: <<line, kind, a, b>>.      *)

Body1 ==
    << <<108, "assign", "d1", <<"d1">> >>,
       <<109, "assign", "d2", <<"d2">> >>,
       <<111, "ifside", "price", <<>> >>,
       <<118, "return", "price", <<>> >> >>

Body2 ==
    << <<143, "assign", "S", <<"lit", Num(100, 1)>> >>,
       <<144, "assign", "K", <<"lit", Num(100, 1)>> >>,
       <<145, "assign", "T", <<"lit", Num(1, 1)>> >>,
       <<146, "assign", "r", <<"lit", Num(5, 100)>> >>,
       <<147, "assign", "sigma", <<"lit", Num(2, 10)>> >>,
       <<148, "assign", "d1", <<"d1">> >>,
       <<149, "assign", "d2", <<"d2">> >>,
       <<151, "ifside", "price", <<>> >>,
       <<158, "return", "price", <<>> >>,
       <<160, "assign", "call_price",
              <<"call", <<"S", "K", "T", "r", "sigma">>, "call">> >>,
       <<161, "assign", "put_price",
              <<"call", <<"S", "K", "T", "r", "sigma">>, "put">> >>,
       <<163, "print", "Call Option Price", "call_price">>,
       <<164, "print", "Put Option Price", "put_price">> >>

Body(d) == IF d = 1 THEN Body1 ELSE Body2

Imports(l) ==
    << <<l, "import", "np", "numpy">>,
       <<l + 1, "import", "plt", "matplotlib.pyplot">>,
       <<l + 2, "import", "norm", "scipy.stats.norm">> >>

Cell1 == Imports(73)

Cell2 == << <<93, "def", "black_scholes", 1>> >>

Cell3 == Imports(136) \o << <<141, "def", "black_scholes", 2>> >>

Cell4 ==
    << <<182, "assign", "sigmas",
              <<"linspace", Num(1, 10), Num(5, 10), NumPoints>> >>,
       <<183, "assign", "prices",
              <<"sweep", "sigmas", <<"S", "K", "T", "r", "$">>, "call">> >>,
       <<185, "plt", "figure", <<>> >>,
       <<186, "plt", "plot", <<"sigmas", "prices">> >>,
       <<187, "plt", "xlabel", <<>> >>,
       <<188, "plt", "ylabel", <<>> >>,
       <<189, "plt", "title", <<>> >>,
       <<190, "plt", "grid", <<>> >>,
       <<191, "plt", "legend", <<>> >>,
       <<192, "plt", "show", <<>> >> >>

Cell5 ==
    << <<210, "assign", "times",
              <<"linspace", Num(1, 10), Num(2, 1), NumPoints>> >>,
       <<211, "assign", "call_prices",
              <<"sweep", "times", <<"S", "K", "$", "r", "sigma">>, "call">> >>,
       <<212, "assign", "put_prices",
              <<"sweep", "times", <<"S", "K", "$", "r", "sigma">>, "put">> >>,
       <<214, "plt", "figure", <<>> >>,
       <<215, "plt", "plot", <<"times", "call_prices">> >>,
       <<216, "plt", "plot", <<"times", "put_prices">> >>,
       <<217, "plt", "xlabel", <<>> >>,
       <<218, "plt", "ylabel", <<>> >>,
       <<219, "plt", "title", <<>> >>,
       <<220, "plt", "grid", <<>> >>,
       <<221, "plt", "legend", <<>> >>,
       <<222, "plt", "show", <<>> >> >>

CellBody(c) ==
    CASE c = 1 -> Cell1
      [] c = 2 -> Cell2
      [] c = 3 -> Cell3
      [] c = 4 -> Cell4
      [] OTHER -> Cell5

-----------------------------------------------------------------------------
(* Frames and scoping.  A frame is [code, pc, locals, it, acc, calls,      *)
(* plots]: what it runs (<<"cell", c>> or <<"def", d>>), its position,     *)
(* its local names, the position and the result so far of the list         *)
(* comprehension it is in (it = 0: in none), and the black_scholes calls   *)
(* and plt calls it has made.                                              *)

Range(s) == {s[i] : i \in 1..Len(s)}

EmptyLocals == [n \in Names |-> Unbound]

NewFrame(code, locals) ==
    [code |-> code, pc |-> 1, locals |-> locals, it |-> 0, acc |-> <<>>,
     calls |-> 0, plots |-> 0]

CodeOf(code) == IF code[1] = "cell" THEN CellBody(code[2]) ELSE Body(code[2])

\* A name is local to a function when it is a parameter or the function
\* assigns it anywhere in its body (neither body has a global statement).
IsLocalName_global(d, n) == n \in Range(Params)

IsLocalName(d, n) ==
    \/ n \in Range(Params)
    \/ \E i \in 1..Len(Body(d)) :
          Body(d)[i][2] \in {"assign", "ifside"} /\ Body(d)[i][3] = n

InFunctionScope(fr, n) == fr.code[1] = "def" /\ IsLocalName(fr.code[2], n)

Load(n, fr, g) ==
    IF InFunctionScope(fr, n)
    THEN IF Tag(fr.locals[n]) = "unbound"
         THEN Raise("UnboundLocalError", n)
         ELSE Ok(fr.locals[n])
    ELSE IF Tag(g[n]) = "unbound"
         THEN Raise("NameError", n)
         ELSE Ok(g[n])

\* The frame and the globals after name = v.
Store_leaky(n, v, fr, g) ==
    IF InFunctionScope(fr, n)
    THEN [fr |-> [fr EXCEPT !.locals[n] = v], g |-> [g EXCEPT ![n] = v]]
    ELSE [fr |-> fr, g |-> [g EXCEPT ![n] = v]]

Store(n, v, fr, g) ==
    IF InFunctionScope(fr, n)
    THEN [fr |-> [fr EXCEPT !.locals[n] = v], g |-> g]
    ELSE [fr |-> fr, g |-> [g EXCEPT ![n] = v]]

\* Load names left to right; the first unbound one raises.  "$" stands for
\* the comprehension's loop variable, which is bound.
LoadAll(ns, fr, g) ==
    LET bad == {i \in 1..Len(ns) :
                   ns[i] # "$" /\ Tag(Load(ns[i], fr, g)) = "raise"}
        first == CHOOSE i \in bad : \A j \in bad : i <= j
    IN  IF bad = {}
        THEN Ok([i \in 1..Len(ns) |->
                    IF ns[i] = "$" THEN None ELSE Load(ns[i], fr, g)[2]])
        ELSE Load(ns[first], fr, g)

-----------------------------------------------------------------------------
(* Expressions.                                                            *)

D1Term(S, K, T, r, sigma) ==
    Div(Add(Log(Div(S, K)), Mul(Add(r, Div(Square(sigma), Num(2, 1))), T)),
        Mul(sigma, Sqrt(T)))

D2Term(d1, sigma, T) == Sub(d1, Mul(sigma, Sqrt(T)))

CallTerm(S, K, T, r, d1, d2) ==
    Sub(Mul(S, Cdf(d1)), Mul(Mul(K, Exp(Mul(Neg(r), T))), Cdf(d2)))

PutTerm_swapped(S, K, T, r, d1, d2) ==
    Sub(Mul(Mul(K, Exp(Mul(Neg(r), T))), Cdf(Neg(d1))), Mul(S, Cdf(Neg(d2))))

PutTerm(S, K, T, r, d1, d2) ==
    Sub(Mul(Mul(K, Exp(Mul(Neg(r), T))), Cdf(Neg(d2))), Mul(S, Cdf(Neg(d1))))

\* (np.log(S / K) + (r + sigma**2 / 2) * T) / (sigma * np.sqrt(T)).
\* S / K is evaluated first, between Python numbers; the other divisions
\* have an np.float64 operand.
EvalD1(fr, g) ==
    LET a == LoadAll(<<"np", "S", "K">>, fr, g)
        b == LoadAll(<<"r", "sigma", "T">>, fr, g)
    IN  IF Tag(a) = "raise" THEN a
        ELSE IF Tag(a[2][2]) = "num" /\ IsZero(a[2][3])
        THEN Raise("ZeroDivisionError", "division by zero")
        ELSE IF Tag(b) = "raise" THEN b
        ELSE Ok(D1Term(a[2][2], a[2][3], b[2][3], b[2][1], b[2][2]))

\* d1 - sigma * np.sqrt(T)
EvalD2(fr, g) ==
    LET a == LoadAll(<<"d1", "sigma", "np", "T">>, fr, g)
    IN  IF Tag(a) = "raise" THEN a
        ELSE Ok(D2Term(a[2][1], a[2][2], a[2][4]))

InvalidSide == Raise("ValueError", "Option type must be 'call' or 'put'.")

\* The if / elif / else on option_type: the value bound to price, or the
\* ValueError.
EvalIfSide(fr, g) ==
    LET o == Load("option_type", fr, g)
        c == LoadAll(<<"S", "norm", "d1", "K", "np", "r", "T", "d2">>, fr, g)
        p == LoadAll(<<"K", "np", "r", "T", "norm", "d2", "S", "d1">>, fr, g)
    IN  IF Tag(o) = "raise" THEN o
        ELSE IF o[2] = Str("call")
        THEN IF Tag(c) = "raise" THEN c
             ELSE Ok(CallTerm(c[2][1], c[2][4], c[2][7], c[2][6], c[2][3], c[2][8]))
        ELSE IF o[2] = Str("put")
        THEN IF Tag(p) = "raise" THEN p
             ELSE Ok(PutTerm(p[2][7], p[2][1], p[2][4], p[2][3], p[2][8], p[2][6]))
        ELSE InvalidSide

\* np.linspace(lo, hi, n): n np.float64 points, the i-th kept symbolic.
Linspace(lo, hi, n) == List([i \in 1..n |-> <<"lin", lo, hi, i, n>>])

\* The locals of a new black_scholes frame.
Bind(args) ==
    [n \in Names |->
        IF n \in Range(Params)
        THEN args[CHOOSE i \in 1..Len(Params) : Params[i] = n]
        ELSE Unbound]

\* black_scholes(<argNames>, side), x being the loop variable "$": the
\* names are loaded and the call is made.
EvalCall(x, argNames, side, fr, g) ==
    LET a == LoadAll(<<"black_scholes">> \o argNames, fr, g)
        vals == [k \in 1..Len(argNames) |->
                    IF argNames[k] = "$" THEN x ELSE a[2][k + 1]]
    IN  IF Tag(a) = "raise" THEN a
        ELSE IF Tag(a[2][1]) # "function"
        THEN Raise("TypeError", "object is not callable")
        ELSE PushCall(a[2][1], vals \o <<Str(side)>>)

-----------------------------------------------------------------------------
(* One statement in frame fr: the frame, globals and stdout after it and   *)
(* how control leaves it (on to the next statement, staying in this one,   *)
(* a call to make, a return, an exception).                                *)

Outcome(fr, g, out, ctl) == [fr |-> fr, g |-> g, out |-> out, ctl |-> ctl]

\* target = value
Assign(n, r, fr, g, out) ==
    IF Tag(r) = "raise"
    THEN Outcome(fr, g, out, r)
    ELSE LET st == Store(n, r[2], fr, g) IN Outcome(st.fr, st.g, out, Continue)

\* target = [black_scholes(...) for x in <iterable>]: the iterable is
\* loaded, then each element makes one call, then the list is bound.
ExecSweep(s, fr, g, out) ==
    LET e == s[4]
        xs == Load(e[2], fr, g)
        call == EvalCall(xs[2][2][fr.it], e[3], e[4], fr, g)
    IN  IF Tag(xs) = "raise" THEN Outcome(fr, g, out, xs)
        ELSE IF fr.it = 0
        THEN Outcome([fr EXCEPT !.it = 1, !.acc = <<>>], g, out, Stay)
        ELSE IF fr.it <= Len(xs[2][2])
        THEN Outcome(fr, g, out, call)
        ELSE Assign(s[3], Ok(List(fr.acc)), [fr EXCEPT !.it = 0, !.acc = <<>>],
                    g, out)

ExecAssign(s, fr, g, out) ==
    LET e == s[4]
        np == Load("np", fr, g)
    IN  CASE Tag(e) = "lit" -> Assign(s[3], Ok(e[2]), fr, g, out)
          [] Tag(e) = "d1" -> Assign(s[3], EvalD1(fr, g), fr, g, out)
          [] Tag(e) = "d2" -> Assign(s[3], EvalD2(fr, g), fr, g, out)
          [] Tag(e) = "linspace" ->
                Assign(s[3],
                       IF Tag(np) = "raise" THEN np
                       ELSE Ok(Linspace(e[2], e[3], e[4])),
                       fr, g, out)
          [] Tag(e) = "sweep" -> ExecSweep(s, fr, g, out)
          [] OTHER -> Outcome(fr, g, out, EvalCall(None, e[2], e[3], fr, g))

ExecStmt(s, fr, g, out) ==
    CASE s[2] = "import" -> Assign(s[3], Ok(Module(s[4])), fr, g, out)
      [] s[2] = "def" -> Assign(s[3], Ok(Function(s[4])), fr, g, out)
      [] s[2] = "assign" -> ExecAssign(s, fr, g, out)
      [] s[2] = "ifside" -> Assign(s[3], EvalIfSide(fr, g), fr, g, out)
      [] s[2] = "return" ->
            LET r == Load(s[3], fr, g)
            IN  Outcome(fr, g, out, IF Tag(r) = "raise" THEN r ELSE Return(r[2]))
      [] s[2] = "print" ->
            LET r == Load(s[4], fr, g)
            IN  IF Tag(r) = "raise"
                THEN Outcome(fr, g, out, r)
                ELSE Outcome(fr, g, Append(out, <<s[3], r[2]>>), Continue)
      [] OTHER ->
            LET r == LoadAll(<<"plt">> \o s[4], fr, g)
            IN  IF Tag(r) = "raise"
                THEN Outcome(fr, g, out, r)
                ELSE Outcome([fr EXCEPT !.plots = @ + 1], g, out, Continue)

\* The caller's frame when the call its statement made has returned v.
Deliver(s, fr, g, v) ==
    IF Tag(s[4]) = "sweep"
    THEN [fr |-> [fr EXCEPT !.acc = Append(@, v), !.it = @ + 1], g |-> g]
    ELSE LET st == Store(s[3], v, fr, g)
         IN  [fr |-> [st.fr EXCEPT !.pc = @ + 1], g |-> st.g]

-----------------------------------------------------------------------------
(* The kernel and its threads.                                             *)

MainThread == "main"

NotRun == [res |-> <<"notrun">>, calls |-> 0, plots |-> 0]

IdleThread == [stack |-> <<>>, def |-> 0, args |-> <<>>, result |-> None]

NoCall == [def |-> 0, args |-> <<>>, result |-> None]

Top(t) == frames[t].stack[Len(frames[t].stack)]

Busy(t) == frames[t].stack # <<>>

InitOver(Th) ==
    /\ cell = 1
    /\ globals = [n \in Names |-> Unbound]
    /\ stdout = <<>>
    /\ outs = [c \in 1..NumCells |-> NotRun]
    /\ frames = [t \in Th |-> IdleThread]
    /\ last = NoCall

\* The kernel starts code cell c on the main thread: the next cell of the
\* top-to-bottom run, or again a cell that has run.
RunCell(c) ==
    /\ c <= cell
    /\ ~Busy(MainThread)
    /\ frames' = [frames EXCEPT ![MainThread].stack =
                     <<NewFrame(<<"cell", c>>, EmptyLocals)>>]
    /\ UNCHANGED <<cell, globals, stdout, outs, last>>

\* Thread t calls black_scholes(a[1], ..., a[6]): the name is looked up and
\* a frame of the definition bound to it starts.  The caller may keep the
\* outcome of its previous call.
Invoke(t, a, keep) ==
    /\ ~Busy(t)
    /\ Tag(globals["black_scholes"]) = "function"
    /\ frames' = [frames EXCEPT ![t] =
                     [stack |-> <<NewFrame(<<"def", globals["black_scholes"][2]>>,
                                           Bind(a))>>,
                      def |-> globals["black_scholes"][2], args |-> a,
                      result |-> None]]
    /\ last' = IF keep /\ Tag(frames[t].result) # "none"
               THEN [def |-> frames[t].def, args |-> frames[t].args,
                     result |-> frames[t].result]
               ELSE last
    /\ UNCHANGED <<cell, globals, stdout, outs>>

\* The bottom frame of thread t has ended with outcome res (a return or an
\* exception that nothing caught): a cell's outcome is recorded and the
\* top-to-bottom run moves on; a call's outcome goes to its caller.
EndOfThread(t, bottom, res) ==
    IF bottom.code[1] = "cell"
    THEN /\ frames' = [frames EXCEPT ![t].stack = <<>>]
         /\ outs' = [outs EXCEPT ![bottom.code[2]] =
                        [res |-> IF Tag(res) = "raise" THEN res ELSE <<"ok">>,
                         calls |-> bottom.calls, plots |-> bottom.plots]]
         /\ cell' = IF bottom.code[2] = cell THEN cell + 1 ELSE cell
    ELSE /\ frames' = [frames EXCEPT ![t].stack = <<>>, ![t].result = res]
         /\ UNCHANGED <<cell, outs>>

\* The top frame of thread t has returned v.
ReturnFrom(t, g, v) ==
    LET st == frames[t].stack
        n == Len(st)
        caller == st[n - 1]
        d == Deliver(CodeOf(caller.code)[caller.pc], caller, g, v)
    IN  IF n = 1
        THEN globals' = g /\ EndOfThread(t, st[1], Return(v))
        ELSE /\ globals' = d.g
             /\ frames' = [frames EXCEPT ![t].stack =
                              Append(SubSeq(st, 1, n - 2), d.fr)]
             /\ UNCHANGED <<cell, outs>>

\* Thread t runs the statement at the pc of its top frame; a frame whose
\* statements are exhausted returns None.
Step(t) ==
    /\ Busy(t)
    /\ LET st == frames[t].stack
           n == Len(st)
           top == st[n]
           code == CodeOf(top.code)
           r == ExecStmt(code[top.pc], top, globals, stdout)
           under == SubSeq(st, 1, n - 1)
       IN  IF top.pc > Len(code)
           THEN stdout' = stdout /\ ReturnFrom(t, globals, None)
           ELSE /\ stdout' = r.out
                /\ CASE Tag(r.ctl) = "next" ->
                          /\ globals' = r.g
                          /\ frames' = [frames EXCEPT ![t].stack =
                                Append(under, [r.fr EXCEPT !.pc = @ + 1])]
                          /\ UNCHANGED <<cell, outs>>
                     [] Tag(r.ctl) = "stay" ->
                          /\ globals' = r.g
                          /\ frames' = [frames EXCEPT ![t].stack =
                                Append(under, r.fr)]
                          /\ UNCHANGED <<cell, outs>>
                     [] Tag(r.ctl) = "call" ->
                          /\ globals' = r.g
                          /\ frames' = [frames EXCEPT ![t].stack =
                                Append(under, [r.fr EXCEPT !.calls = @ + 1])
                                \o <<NewFrame(<<"def", r.ctl[2][2]>>,
                                              Bind(r.ctl[3]))>>]
                          /\ UNCHANGED <<cell, outs>>
                     [] Tag(r.ctl) = "return" -> ReturnFrom(t, r.g, r.ctl[2])
                     [] OTHER -> globals' = r.g /\ EndOfThread(t, st[1], r.ctl)
    /\ UNCHANGED last

\* The statements of code run from frame fr0 to their end with no other
\* thread running: the outcome of the last statement run.
RunAlone(code, fr0, g0) ==
    LET body == CodeOf(code)
        run[k \in 0..Len(body)] ==
            IF k = 0
            THEN Outcome(fr0, g0, <<>>, Continue)
            ELSE LET p == run[k - 1]
                 IN  IF Tag(p.ctl) = "next"
                     THEN ExecStmt(body[k], p.fr, p.g, p.out)
                     ELSE p
    IN  run[Len(body)]

\* The global namespace once code cells 1..k have run in order.
GlobalsAfter(k) ==
    LET after[c \in 0..k] ==
            IF c = 0
            THEN [n \in Names |-> Unbound]
            ELSE RunAlone(<<"cell", c>>, NewFrame(<<"cell", c>>, EmptyLocals),
                          after[c - 1]).g
    IN  after[k]

\* The arguments the calls are drawn from: the notebook's example, an
\* in-the-money spot with a negative rate, and one tuple per violated
\* domain constraint (strike, spot, maturity, volatility).
Example == <<Num(100, 1), Num(100, 1), Num(1, 1), Num(5, 100), Num(2, 10)>>

ArgTuples ==
    {Example,
     <<Num(110, 1), Num(100, 1), Num(1, 1), Num(-1, 100), Num(2, 10)>>,
     <<Num(100, 1), Num(0, 1), Num(1, 1), Num(5, 100), Num(2, 10)>>,
     <<Num(0, 1), Num(100, 1), Num(1, 1), Num(5, 100), Num(2, 10)>>,
     <<Num(110, 1), Num(100, 1), Num(0, 1), Num(5, 100), Num(2, 10)>>,
     <<Num(100, 1), Num(100, 1), Num(1, 1), Num(5, 100), Num(0, 10)>>,
     <<Num(100, 1), Num(100, 1), Num(1, 1), Num(5, 100), Num(-2, 10)>>}

Sides == {"call", "put", "straddle"}

CallArgs(A) == {a \o <<Str(s)>> : a \in A, s \in Sides}

\* The calls made where two outcomes are compared: valid contracts only.
ValidTuples ==
    {Example,
     <<Num(110, 1), Num(100, 1), Num(1, 1), Num(-1, 100), Num(2, 10)>>}

\* The calls concurrent threads make.
ThreadCalls ==
    {Example \o <<Str("call")>>,
     <<Num(110, 1), Num(100, 1), Num(1, 1), Num(-1, 100), Num(2, 10), Str("put")>>,
     Example \o <<Str("straddle")>>}

NThreads == 2

\* The notebook run from a fresh kernel, with calls of black_scholes made
\* from the prompt between cells.
Init == InitOver({MainThread})

Next ==
    \/ \E c \in 1..NumCells : RunCell(c)
    \/ \E a \in CallArgs(ArgTuples) : Invoke(MainThread, a, FALSE)
    \/ Step(MainThread)

Spec == Init /\ [][Next]_vars

\* The same, the caller keeping an earlier outcome to compare with.
NextRepeat ==
    \/ \E c \in 1..NumCells : RunCell(c)
    \/ \E a \in CallArgs(ValidTuples), keep \in BOOLEAN : Invoke(MainThread, a, keep)
    \/ Step(MainThread)

SpecRepeat == Init /\ [][NextRepeat]_vars

\* Threads calling black_scholes concurrently, in a kernel where the cells
\* up to the first or the second definition have run.
InitThreads ==
    \E k \in {2, 3} :
        /\ cell = k + 1
        /\ globals = GlobalsAfter(k)
        /\ stdout = <<>>
        /\ outs = [c \in 1..NumCells |->
                      IF c <= k THEN [NotRun EXCEPT !.res = <<"ok">>] ELSE NotRun]
        /\ frames = [t \in 1..NThreads |-> IdleThread]
        /\ last = NoCall

NextThreads ==
    \/ \E t \in 1..NThreads, a \in ThreadCalls : Invoke(t, a, FALSE)
    \/ \E t \in 1..NThreads : Step(t)

SpecThreads == InitThreads /\ [][NextThreads]_vars

-----------------------------------------------------------------------------
(* Properties.                                                             *)

Threads == DOMAIN frames

\* Thread t's call has ended with an outcome.
Done(t) == ~Busy(t) /\ Tag(frames[t].result) # "none"

\* Thread t is inside a black_scholes frame.
InCall(t) == Busy(t) /\ Top(t).code[1] = "def"

Positive(v) == Tag(v) = "num" /\ v[2] > 0

\* S, K, T, sigma > 0
ValidDomain(a) ==
    Positive(a[1]) /\ Positive(a[2]) /\ Positive(a[3]) /\ Positive(a[5])

KnownSide(a) == a[6] \in {Str("call"), Str("put")}

\* The Black-Scholes price of the contract a, as the formula states it.
FormulaD1(a) ==
    <<"div",
      <<"add", <<"log", <<"div", a[1], a[2]>> >>,
               <<"mul", <<"add", a[4], <<"div", <<"pow", a[5], Num(2, 1)>>, Num(2, 1)>> >>,
                        a[3]>> >>,
      <<"mul", a[5], <<"sqrt", a[3]>> >> >>

FormulaD2(a) == <<"sub", FormulaD1(a), <<"mul", a[5], <<"sqrt", a[3]>> >> >>

Discount(a) == <<"exp", <<"mul", <<"neg", a[4]>>, a[3]>> >>

FormulaPrice(a) ==
    IF a[6] = Str("call")
    THEN <<"sub", <<"mul", a[1], <<"cdf", FormulaD1(a)>> >>,
                  <<"mul", <<"mul", a[2], Discount(a)>>, <<"cdf", FormulaD2(a)>> >> >>
    ELSE <<"sub", <<"mul", <<"mul", a[2], Discount(a)>>,
                           <<"cdf", <<"neg", FormulaD2(a)>> >> >>,
                  <<"mul", a[1], <<"cdf", <<"neg", FormulaD1(a)>> >> >> >>

\* C1: whichever definition of black_scholes is bound, a call with S, K, T,
\* sigma > 0 and option_type 'call' or 'put' returns the Black-Scholes
\* formula built from the arguments the caller passed.
C1_FormulaOfArguments ==
    \A t \in Threads :
        Done(t) /\ ValidDomain(frames[t].args) /\ KnownSide(frames[t].args)
        => frames[t].result = Return(FormulaPrice(frames[t].args))

\* C2: every call whose option_type is neither 'call' nor 'put' ends in the
\* ValueError "Option type must be 'call' or 'put'.".
C2_InvalidSideRejected ==
    \A t \in Threads :
        Done(t) /\ ~KnownSide(frames[t].args) => frames[t].result = InvalidSide

\* C3: every call with strike, spot, maturity or volatility <= 0 fails with
\* an error; it never returns a value.
C3_InvalidDomainRejected ==
    \A t \in Threads :
        Done(t) /\ ~ValidDomain(frames[t].args) => Tag(frames[t].result) = "raise"

\* Rationals <<n, d>>, d > 0, for the values of the price terms.
RSub(a, b) == <<a[1] * b[2] - b[1] * a[2], a[2] * b[2]>>
RMul(a, b) == <<a[1] * b[1], a[2] * b[2]>>
REq(a, b) == a[1] * b[2] = b[1] * a[2]

Grid == 2

\* The interpretations of the uninterpreted functions at the arguments a
\* price uses: Phi(d1) = p1, Phi(d2) = p2 in [0, 1], exp(-r*T) = e > 0,
\* and Phi(-x) = 1 - Phi(x).  d2 is the one argument that is a difference.
Interpretations ==
    [p1 : {<<k, Grid>> : k \in 0..Grid},
     p2 : {<<k, Grid>> : k \in 0..Grid},
     e : {<<k, Grid>> : k \in 1..(Grid + 1)}]

PhiAt(x, I) == IF Tag(x) = "sub" THEN I.p2 ELSE I.p1

RECURSIVE Val(_, _)
Val(t, I) ==
    CASE Tag(t) = "num" -> <<t[2], t[3]>>
      [] Tag(t) = "sub" -> RSub(Val(t[2], I), Val(t[3], I))
      [] Tag(t) = "mul" -> RMul(Val(t[2], I), Val(t[3], I))
      [] Tag(t) = "exp" -> I.e
      [] Tag(t) = "cdf" ->
            IF Tag(t[2]) = "neg"
            THEN RSub(<<1, 1>>, PhiAt(t[2][2], I))
            ELSE PhiAt(t[2], I)
      [] OTHER -> <<0, 1>>

\* The caller holds the call price (kept) and the put price (just returned)
\* of one valid contract, both from the definition of lines 93-118.
ParityPair ==
    /\ Done(MainThread)
    /\ frames[MainThread].def = 1 /\ last.def = 1
    /\ Tag(frames[MainThread].result) = "return"
    /\ Tag(last.result) = "return"
    /\ ValidDomain(frames[MainThread].args)
    /\ last.args = [frames[MainThread].args EXCEPT ![6] = Str("call")]
    /\ frames[MainThread].args[6] = Str("put")

\* C4: put-call parity: for a valid contract, call price - put price =
\* S - K*exp(-r*T), whatever values Phi and exp take, given
\* Phi(x) + Phi(-x) = 1.
C4_PutCallParity ==
    ParityPair =>
        \A I \in Interpretations :
            REq(RSub(Val(last.result[2], I), Val(frames[MainThread].result[2], I)),
                RSub(Val(last.args[1], I), RMul(Val(last.args[2], I), I.e)))

C4_Witness == ParityPair

\* The caller holds the outcomes of two calls of one definition with
\* identical arguments.
SameCallTwice ==
    /\ Done(MainThread)
    /\ last.def = frames[MainThread].def
    /\ last.args = frames[MainThread].args

\* Two calls of a definition with identical arguments have identical
\* outcomes, whatever was called in between.
C5_Deterministic == SameCallTwice => last.result = frames[MainThread].result

\* A step inside a black_scholes frame writes no global and prints nothing.
C5_NoGlobalWrite ==
    \A t \in Threads : InCall(t) => globals' = globals /\ stdout' = stdout

\* A sweep cell that is run again has the outcome it had.
C5_SweepRepeats ==
    \A c \in {4, 5} : outs[c].res # <<"notrun">> => outs'[c] = outs[c]

SweptArgs(names, x, side) ==
    [k \in 1..6 |->
        IF k = 6 THEN Str(side)
        ELSE IF names[k] = "$" THEN x ELSE globals[names[k]]]

SweepDone(c, target, xs, names, side, ncalls) ==
    /\ outs[c].res = <<"ok">>
    /\ outs[c].calls = ncalls
    /\ Tag(globals[target]) = "list"
    /\ Len(globals[target][2]) = Len(globals[xs][2])
    /\ \A i \in 1..Len(globals[xs][2]) :
          globals[target][2][i]
             = FormulaPrice(SweptArgs(names, globals[xs][2][i], side))

\* C6: once a sweep cell has run, it has called black_scholes once per
\* swept value and bound a list of the same length whose i-th element is
\* the price for the i-th value, the other parameters fixed.
C6_SweepPerValue ==
    /\ outs[4].res # <<"notrun">> =>
          SweepDone(4, "prices", "sigmas", <<"S", "K", "T", "r", "$">>, "call",
                    NumPoints)
    /\ outs[5].res # <<"notrun">> =>
          /\ SweepDone(5, "call_prices", "times", <<"S", "K", "$", "r", "sigma">>,
                       "call", 2 * NumPoints)
          /\ SweepDone(5, "put_prices", "times", <<"S", "K", "$", "r", "sigma">>,
                       "put", 2 * NumPoints)

\* C7: a call whose option_type is neither 'call' nor 'put' fails before
\* any d1 / d2 arithmetic, so its failure is the ValueError whatever the
\* numeric arguments are.
C7_SideCheckedFirst ==
    \A t \in Threads :
        /\ InCall(t) /\ ~KnownSide(frames[t].args) =>
              /\ Tag(Top(t).locals["d1"]) = "unbound"
              /\ Tag(Top(t).locals["d2"]) = "unbound"
        /\ Done(t) /\ ~KnownSide(frames[t].args) =>
              frames[t].result[2] = "ValueError"

\* C8: under every interleaving of concurrent calls, each call ends with
\* the outcome it has when run alone.
C8_ThreadSafe ==
    \A t \in Threads :
        Done(t) =>
            frames[t].result
               = RunAlone(<<"def", frames[t].def>>,
                          NewFrame(<<"def", frames[t].def>>, Bind(frames[t].args)),
                          globals).ctl

C8_Witness ==
    \E t, u \in Threads :
        /\ Done(t) /\ Tag(frames[t].result) = "return"
        /\ InCall(u) /\ Top(u).pc >= 3
        /\ frames[u].args # frames[t].args

Printed(label) == Cardinality({i \in 1..Len(stdout) : stdout[i][1] = label})

\* C9: once the example cell has run, it has printed 'Call Option Price'
\* and 'Put Option Price' exactly once each.
C9_ExamplePrinted ==
    outs[3].res # <<"notrun">> =>
        /\ Printed("Call Option Price") = 1
        /\ Printed("Put Option Price") = 1

\* C10: no cell of the top-to-bottom run stops with an unbound name, and
\* both sweep cells reach their plotting calls.
C10_NamesBound ==
    \A c \in 1..NumCells :
        /\ outs[c].res[1] # "raise"
        /\ c \in {4, 5} /\ outs[c].res # <<"notrun">> => outs[c].plots > 0

====
